---- MODULE Spec2Model ----
(***************************************************************************)
(* go-environment-configs: binding of environment variables into a nested  *)
(* configuration struct (Visit + Loader/Logger visitors) and the           *)
(* TraversalError that aggregates the failures.                            *)
(*                                                                         *)
(* Strings are tuples of one-character strings, so that concatenation,     *)
(* splitting on "," and parsing are computed character by character.       *)
(* Error messages are tuples of text fragments; the key and the value that *)
(* a message quotes are spliced in character by character.                 *)
(*                                                                         *)
(* The source tree holds two revisions of the traversal engine:            *)
(*   rev = "visit"  src/visit.go  doVisit (every Ptr field is recursed     *)
(*                  into, a failure overwrites the key's entry)            *)
(*   rev = "log"    src/log.go    doVisit (terminalTypes are leaves, a     *)
(*                  failure is merged with Append)                         *)
(* Both are driven with the Loader of src/load.go:230 and the logger of    *)
(* src/log.go:21.                                                          *)
(***************************************************************************)
EXTENDS Integers, Sequences, FiniteSets, TLC

VARIABLES
  cfgType,   \* name of the struct type of the container passed to Visit
  rev,       \* revision of the traversal engine in use
  prefix,    \* prefix given to Loader / Logger
  env,       \* process environment: key -> <<>> (unset) or <<value>> (set)
  rec,       \* field values of the container, by field path
  errs,      \* the *TraversalError the caller holds
  calls,     \* visitor invocations of the last Visit: [path, key]
  fails,     \* failures the visitor returned during the last Visit, in order
  out,       \* log sink: lines written by the last Visit with the logger
  panicked,  \* the last call panicked (the process aborted)
  abort,     \* <<>>, or <<v>> with v the value the panic carries
  last,      \* the last call: its name, arguments and result
  pre,       \* rec and errs as they were before the last call
  nLoads,    \* number of Visit calls made
  nCalls     \* number of Append / Ensure / IsValid calls made

vars == <<cfgType, rev, prefix, env, rec, errs, calls, fails, out, panicked,
          abort, last, pre, nLoads, nCalls>>

\* Bounds of the model.
MaxSet == 2       \* environment variables set at once
MaxLoads == 2     \* Visit calls in one run
MaxCalls == 2     \* Append / Ensure / IsValid calls in one run
MaxScalarSet == 1 \* variables of a record of scalars set at once

-----------------------------------------------------------------------------
(* Strings *)

Digits == {"0", "1", "2", "3", "4", "5", "6", "7", "8", "9"}

DigitVal(c) ==
  CASE c = "0" -> 0 [] c = "1" -> 1 [] c = "2" -> 2 [] c = "3" -> 3
    [] c = "4" -> 4 [] c = "5" -> 5 [] c = "6" -> 6 [] c = "7" -> 7
    [] c = "8" -> 8 [] c = "9" -> 9

DigitChar(n) == <<"0", "1", "2", "3", "4", "5", "6", "7", "8", "9">>[n + 1]

Upper == <<"A","B","C","D","E","F","G","H","I","J","K","L","M",
           "N","O","P","Q","R","S","T","U","V","W","X","Y","Z">>

Lower == <<"a","b","c","d","e","f","g","h","i","j","k","l","m",
           "n","o","p","q","r","s","t","u","v","w","x","y","z">>

\* strings.ToLower
ToLower(s) ==
  [i \in 1..Len(s) |->
     IF \E j \in 1..26 : Upper[j] = s[i]
       THEN Lower[CHOOSE j \in 1..26 : Upper[j] = s[i]]
       ELSE s[i]]

\* strings.Contains
Contains(s, sub) ==
  \E i \in 0..(Len(s) - Len(sub)) : SubSeq(s, i + 1, i + Len(sub)) = sub

RECURSIVE SplitFrom(_, _, _)
SplitFrom(s, i, cur) ==
  IF i > Len(s) THEN <<cur>>
  ELSE IF s[i] = "," THEN <<cur>> \o SplitFrom(s, i + 1, <<>>)
  ELSE SplitFrom(s, i + 1, Append(cur, s[i]))

\* strings.Split(value, ",")
Split(s) == SplitFrom(s, 1, <<>>)

RECURSIVE DecVal(_)
DecVal(s) ==
  IF s = <<>> THEN 0
  ELSE 10 * DecVal(SubSeq(s, 1, Len(s) - 1)) + DigitVal(s[Len(s)])

\* The syntax strconv.ParseInt(value, 10, 64) and big.Int.SetString(value, 10)
\* accept: an optional sign, then one or more decimal digits.
IsDecimal(value) ==
  LET body == IF Len(value) > 0 /\ value[1] \in {"+", "-"}
                THEN Tail(value) ELSE value
  IN  body # <<>> /\ \A i \in 1..Len(body) : body[i] \in Digits

DecimalOf(value) ==
  IF value[1] = "-" THEN 0 - DecVal(Tail(value))
  ELSE IF value[1] = "+" THEN DecVal(Tail(value))
  ELSE DecVal(value)

\* strconv.FormatInt(n, 10) of a small non-negative n
RECURSIVE FormatInt(_)
FormatInt(n) ==
  IF n < 10 THEN <<DigitChar(n)>>
  ELSE FormatInt(n \div 10) \o <<DigitChar(n % 10)>>

\* A run of decimal digits without its leading zeros: the decimal writing
\* of the number it denotes.  Numbers of 64 bits are kept as such writings.
RECURSIVE StripZeros(_)
StripZeros(s) ==
  IF Len(s) > 1 /\ s[1] = "0" THEN StripZeros(Tail(s)) ELSE s

AllDigits(s) == s # <<>> /\ \A i \in 1..Len(s) : s[i] \in Digits

\* a < b for two decimal writings without leading zeros
DigitsLess(a, b) ==
  \/ Len(a) < Len(b)
  \/ /\ Len(a) = Len(b)
     /\ \E i \in 1..Len(a) :
          /\ DigitVal(a[i]) < DigitVal(b[i])
          /\ \A j \in 1..(i - 1) : a[j] = b[j]

\* 1<<bitSize - 1, the value strconv.ParseUint returns with ErrRange
MaxUint(bitSize) ==
  CASE bitSize = 8 -> <<"2", "5", "5">>
    [] bitSize = 16 -> <<"6", "5", "5", "3", "5">>
    [] bitSize = 32 -> <<"4", "2", "9", "4", "9", "6", "7", "2", "9", "5">>
    [] bitSize = 64 -> <<"1", "8", "4", "4", "6", "7", "4", "4", "0", "7", "3", "7", "0", "9", "5", "5", "1", "6", "1", "5">>

\* 1<<63 - 1 and 1<<63, the bounds of strconv.ParseInt(value, 10, 64)
MaxInt64 == <<"9", "2", "2", "3", "3", "7", "2", "0", "3", "6", "8", "5", "4", "7", "7", "5", "8", "0", "7">>

MinInt64Magnitude == <<"9", "2", "2", "3", "3", "7", "2", "0", "3", "6", "8", "5", "4", "7", "7", "5", "8", "0", "8">>

\* strconv.ParseUint(value, 10, bitSize): digits only, no sign; a number
\* above the maximum is a range error that returns the maximum.
ParseUint(value, bitSize) ==
  IF ~AllDigits(value) THEN [err |-> "syntax", v |-> <<"0">>]
  ELSE IF DigitsLess(MaxUint(bitSize), StripZeros(value))
    THEN [err |-> "range", v |-> MaxUint(bitSize)]
  ELSE [err |-> "", v |-> StripZeros(value)]

\* strconv.ParseInt(value, 10, 64) returns no error
ParseIntOk(value) ==
  /\ IsDecimal(value)
  /\ IF value[1] = "-"
       THEN ~DigitsLess(MinInt64Magnitude, StripZeros(Tail(value)))
       ELSE ~DigitsLess(MaxInt64,
                        StripZeros(IF value[1] = "+" THEN Tail(value) ELSE value))

-----------------------------------------------------------------------------
(* Struct types.  A struct type is a function from field paths (tuples of  *)
(* 1-based field indexes, in declaration order) to the field's declared    *)
(* type and its `environment` tag.                                         *)

Fld(tag, type) == [tag |-> tag, type |-> type]

\* src/parsing_test.go:10-21 (Boolean, Int, IntSlice, Nested *Nested{Value})
ConfigType ==
  (<<1>> :> Fld(<<"B">>, "bool")) @@ (<<2>> :> Fld(<<"I">>, "int")) @@
  (<<3>> :> Fld(<<"L">>, "[]int")) @@ (<<4>> :> Fld(<<"N">>, "*struct")) @@
  (<<4, 1>> :> Fld(<<"V">>, "int"))

\* src/load_test.go:12-25 (String, StringSlice, BigInt, Nested{BigIntPointer})
BigConfigType ==
  (<<1>> :> Fld(<<"S">>, "string")) @@ (<<2>> :> Fld(<<"T">>, "[]string")) @@
  (<<3>> :> Fld(<<"G">>, "big.Int")) @@ (<<4>> :> Fld(<<"N">>, "*struct")) @@
  (<<4, 1>> :> Fld(<<"P">>, "*big.Int"))

\* src/log.go:70-78, the README's Config: a nested record held by value
AppConfigType ==
  (<<1>> :> Fld(<<"M">>, "struct")) @@ (<<1, 1>> :> Fld(<<"o">>, "int")) @@
  (<<2>> :> Fld(<<"W">>, "string"))

\* two leaves whose derived key is the same, <prefix>_N_V
ClashType ==
  (<<1>> :> Fld(<<"N", "_", "V">>, "int")) @@
  (<<2>> :> Fld(<<"N">>, "*struct")) @@ (<<2, 1>> :> Fld(<<"V">>, "bool"))

\* a leaf of a type the Loader has no case for
OddType ==
  (<<1>> :> Fld(<<"F">>, "float64")) @@ (<<2>> :> Fld(<<"I">>, "int"))

\* src/unnamed/part_000:22 SomePassword string `SOME_PASSWORD`, and leaves of
\* other types whose tag holds "password" in some case: an int kept directly
\* and a string kept in a nested record held by value.
SecretType ==
  (<<1>> :> Fld(<<"S", "_", "P", "A", "S", "S", "W", "O", "R", "D">>, "string")) @@
  (<<2>> :> Fld(<<"P", "a", "s", "s", "w", "o", "r", "d", "N">>, "int")) @@
  (<<3>> :> Fld(<<"M">>, "struct")) @@
  (<<3, 1>> :> Fld(<<"p", "a", "s", "s", "w", "o", "r", "d">>, "string"))

\* a bool and the unsigned integers of src/load.go:45-52
ScalarType ==
  (<<1>> :> Fld(<<"B">>, "bool")) @@ (<<2>> :> Fld(<<"U">>, "uint8")) @@
  (<<3>> :> Fld(<<"V">>, "uint16")) @@ (<<4>> :> Fld(<<"W">>, "uint32")) @@
  (<<5>> :> Fld(<<"X">>, "uint64"))

\* the two slices of src/unnamed/part_000:19-20 (IntSlice, StringSlice)
ListsType ==
  (<<1>> :> Fld(<<"L">>, "[]int")) @@ (<<2>> :> Fld(<<"T">>, "[]string"))

TypeNames == {"AppConfig", "Config", "BigConfig", "Clash", "Odd", "Secret"}

StructType(name) ==
  CASE name = "Config" -> ConfigType
    [] name = "BigConfig" -> BigConfigType
    [] name = "AppConfig" -> AppConfigType
    [] name = "Clash" -> ClashType
    [] name = "Odd" -> OddType
    [] name = "Secret" -> SecretType
    [] name = "Scalar" -> ScalarType
    [] name = "Lists" -> ListsType

Front(p) == SubSeq(p, 1, Len(p) - 1)

\* math/big's Int is struct{neg bool; abs nat}: two unexported, untagged
\* fields, which a walk that recurses into a *big.Int field reaches.
FieldAt(T, p) ==
  IF p \in DOMAIN T THEN T[p]
  ELSE IF p[Len(p)] = 1 THEN Fld(<<>>, "big.neg") ELSE Fld(<<>>, "big.abs")

\* reflect.Type.NumField of the struct (or pointed-to struct) at path p
NumField(T, p) ==
  IF p # <<>> /\ p \in DOMAIN T /\ T[p].type = "*big.Int" THEN 2
  ELSE Cardinality({q \in DOMAIN T : Len(q) = Len(p) + 1 /\ Front(q) = p})

\* reflect.Kind of a declared type
Kind(type) ==
  CASE type = "bool" -> "Bool"
    [] type = "int" -> "Int"
    [] type = "string" -> "String"
    [] type \in {"[]int", "[]string", "big.abs"} -> "Slice"
    [] type \in {"big.Int", "struct"} -> "Struct"
    [] type \in {"*big.Int", "*struct"} -> "Ptr"
    [] type = "big.neg" -> "Bool"
    [] type = "float64" -> "Float64"
    [] type = "uint8" -> "Uint8"
    [] type = "uint16" -> "Uint16"
    [] type = "uint32" -> "Uint32"
    [] type = "uint64" -> "Uint64"

\* reflect.Kind of the elements of a slice type
ElemKind(type) ==
  CASE type = "[]int" -> "Int"
    [] type = "[]string" -> "String"
    [] type = "big.abs" -> "Uint"

\* reflect.Value.CanSet: false for a value reached through an unexported field
CanSet(type) == type \notin {"big.neg", "big.abs"}

-----------------------------------------------------------------------------
(* Field values.  bool: BOOLEAN; int, big.Int, float64: an integer;        *)
(* string: a string; []int, []string: a tuple; *big.Int: <<>> (nil) or     *)
(* <<n>>; *struct: TRUE when allocated, FALSE when nil; struct: TRUE;      *)
(* uint8..uint64: the decimal writing of the number.                       *)

UintTypes == {"uint8", "uint16", "uint32", "uint64"}

ZeroValue(type) ==
  CASE type = "bool" -> FALSE
    [] type \in {"int", "big.Int", "float64"} -> 0
    [] type \in {"string", "[]int", "[]string", "*big.Int"} -> <<>>
    [] type \in {"*struct", "struct"} -> TRUE
    [] type \in UintTypes -> <<"0">>

PresetValue(type) ==
  CASE type = "bool" -> TRUE
    [] type \in {"int", "big.Int", "float64"} -> 5
    [] type = "string" -> <<"d">>
    [] type = "[]int" -> <<7>>
    [] type = "[]string" -> << <<"d">> >>
    [] type = "*big.Int" -> <<5>>
    [] type \in {"*struct", "struct"} -> TRUE
    [] type \in UintTypes -> <<"5">>

\* The containers a caller builds before Visit: the zero value with its
\* nested pointers allocated (as the tests do), one with defaults filled
\* in, and the zero value with its nested pointers left nil.
Containers(T) ==
  { [p \in DOMAIN T |-> ZeroValue(T[p].type)],
    [p \in DOMAIN T |-> PresetValue(T[p].type)],
    [p \in DOMAIN T |-> IF T[p].type = "*struct" THEN FALSE
                        ELSE ZeroValue(T[p].type)] }

\* The value of the field at p, the fields of a big.Int included.
ValueAt(T, r, p) ==
  IF p \in DOMAIN T THEN r[p]
  ELSE IF p[Len(p)] = 1 THEN r[Front(p)][1] < 0
  ELSE IF r[Front(p)][1] < 0 THEN 0 - r[Front(p)][1] ELSE r[Front(p)][1]

-----------------------------------------------------------------------------
(* Environment *)

Prefixes == {<<"M", "Y">>, <<"m">>}

Values ==
  { <<"t", "r", "u", "e">>, <<"1", "0">>, <<"f", "o", "o">>,
    <<"1", ",", "2">>, <<"1", ",", "x", ",", "2">>, <<>> }

\* Values for a bool and for unsigned integers: the literals and their
\* near misses, the greatest number of each width and the one after it,
\* signed, zero-padded and out-of-int64 writings, and the empty string.
ScalarValues ==
  { <<"t", "r", "u", "e">>,
    <<"f", "a", "l", "s", "e">>,
    <<"T", "r", "u", "e">>,
    <<"1">>,
    <<"0">>,
    <<"2", "5", "5">>,
    <<"2", "5", "6">>,
    <<"6", "5", "5", "3", "5">>,
    <<"6", "5", "5", "3", "6">>,
    <<"4", "2", "9", "4", "9", "6", "7", "2", "9", "5">>,
    <<"4", "2", "9", "4", "9", "6", "7", "2", "9", "6">>,
    <<"1", "8", "4", "4", "6", "7", "4", "4", "0", "7", "3", "7", "0", "9", "5", "5", "1", "6", "1", "5">>,
    <<"1", "8", "4", "4", "6", "7", "4", "4", "0", "7", "3", "7", "0", "9", "5", "5", "1", "6", "1", "6">>,
    <<"-", "1">>,
    <<"+", "5">>,
    <<"0", "0", "7">>,
    <<"-", "0">>,
    <<"-", "9", "2", "2", "3", "3", "7", "2", "0", "3", "6", "8", "5", "4", "7", "7", "5", "8", "0", "9">>,
    <<>> }

\* Values for the slices: lists with no, one and two elements that are no
\* integers, at the first index and after it, empty elements, signed
\* elements, a value without a comma, and the empty string.
ListValues ==
  { <<"1", ",", "2">>,
    <<"1", ",", "x", ",", "2">>,
    <<"1", ",", "x", ",", "y">>,
    <<"x", ",", "1", ",", "y">>,
    <<",">>,
    <<"a", ",", ",", "b">>,
    <<"-", "3", ",", "+", "4">>,
    <<"a">>,
    <<"7", ",">>,
    <<>> }

\* prefix, then "_" and the tag of every field on the path
RECURSIVE KeyOf(_, _, _)
KeyOf(T, pfx, p) ==
  IF p = <<>> THEN pfx
  ELSE KeyOf(T, pfx, Front(p)) \o <<"_">> \o FieldAt(T, p).tag

\* The variables an operator may export for a container of type T: one per
\* field that is not a pointer to a nested record, and for a *big.Int field
\* also the name with a trailing "_".
EnvKeys(T, pfx) ==
  {KeyOf(T, pfx, p) : p \in {q \in DOMAIN T : T[q].type # "*struct"}} \cup
  {KeyOf(T, pfx, p) \o <<"_">> : p \in {q \in DOMAIN T : T[q].type = "*big.Int"}}

\* os.LookupEnv
IsSet(key) == key \in DOMAIN env /\ env[key] # <<>>

LookupEnv(key) == env[key][1]

-----------------------------------------------------------------------------
(* TraversalError.  A *TraversalError is nil, or a struct whose            *)
(* invalidKeys map is nil (hasMap = FALSE: a TraversalError{} made by      *)
(* hand) or a map from key to message.                                     *)

NilError == [isNil |-> TRUE, hasMap |-> FALSE, invalidKeys |-> <<>>]

EmptyError == [isNil |-> FALSE, hasMap |-> FALSE, invalidKeys |-> <<>>]

\* &TraversalError{invalidKeys: map[string]error{key: msg}}
NewError(key, msg) ==
  [isNil |-> FALSE, hasMap |-> TRUE, invalidKeys |-> (key :> msg)]

\* m[key] = msg on a Go map
MapPut(m, key, msg) ==
  [k \in (DOMAIN m) \cup {key} |-> IF k = key THEN msg ELSE m[k]]

\* The separator fmt.Errorf("%v: %s", existing, msg) puts between messages.
Separator == <<": ">>

\* An IsValid that takes the absent error for one that holds every key.
IsValidNilInvalid(p, key) ==
  IF p.isNil THEN FALSE
  ELSE ~(key \in DOMAIN p.invalidKeys)

\* (*TraversalError).IsValid, src/visit.go:64-70
IsValid(p, key) ==
  IF p.isNil THEN TRUE
  ELSE ~(key \in DOMAIN p.invalidKeys)

\* An Append that lets the new message replace the one the key already has.
AppendErrReplacing(err, key, msg) ==
  IF err.isNil THEN NewError(key, msg)
  ELSE [isNil |-> FALSE, hasMap |-> TRUE,
        invalidKeys |-> MapPut(err.invalidKeys, key, msg)]

\* An Append that starts a fresh map for the new entry.
AppendErrFresh(err, key, msg) == NewError(key, msg)

\* Append(err, key, msg)
AppendErr(err, key, msg) ==
  IF err.isNil THEN NewError(key, msg)
  ELSE LET m == err.invalidKeys
       IN  [isNil |-> FALSE, hasMap |-> TRUE,
            invalidKeys |->
              IF key \in DOMAIN m
                THEN MapPut(m, key, m[key] \o Separator \o msg)
                ELSE MapPut(m, key, msg)]

\* Ensure(err, key, predicate, msg): the error is added unless the
\* predicate already holds.
Ensure(err, key, predicate, msg) ==
  IF predicate THEN err ELSE AppendErr(err, key, msg)

\* The orders in which a range over a Go map with the keys S may run.
Orders(S) ==
  {o \in [1..Cardinality(S) -> S] :
     \A i, j \in 1..Cardinality(S) : o[i] = o[j] => i = j}

\* fmt.Sprintf("  %s: %v\n", env, err)
ErrorLine(envName, msg) == <<"  ">> \o envName \o <<": ">> \o msg \o <<"\n">>

RECURSIVE ErrorLines(_, _, _)
ErrorLines(p, o, i) ==
  IF i > Len(o) THEN <<>>
  ELSE ErrorLine(o[i], p.invalidKeys[o[i]]) \o ErrorLines(p, o, i + 1)

\* (*TraversalError).Error, src/visit.go:103-114: the texts it may return,
\* one for each order of the range over invalidKeys.
Error(p) ==
  IF p.isNil THEN {<<>>}
  ELSE {<<"Errors occurred while acting on the struct:\n">> \o ErrorLines(p, o, 1) :
          o \in Orders(DOMAIN p.invalidKeys)}

-----------------------------------------------------------------------------
(* The walk's running state, and what a visitor hands back.                *)

Walk(r, e) ==
  [rec |-> r, errs |-> e, calls |-> <<>>, fails |-> <<>>, out |-> <<>>,
   panic |-> FALSE, value |-> <<>>]

\* The value of a panic raised by the reflect package or by a panic(string)
\* of the Loader: it is no error of this package.
RuntimePanic == [kind |-> "runtime", Key |-> <<>>, msg |-> <<>>, errs |-> <<>>]

\* panic(v)
PanicWith(st, v) == [st EXCEPT !.panic = TRUE, !.value = <<v>>]

Panic(st) == PanicWith(st, RuntimePanic)

Ok(st) == [st |-> st, err |-> <<>>]

\* &VisitError{error: msg, Key: key}
Fail(st, key, msg) == [st |-> st, err |-> <<[Key |-> key, msg |-> msg]>>]

\* reflect.Value.Set / SetBool / SetInt / SetString on the field at p
SetField(T, st, p, v) ==
  IF CanSet(FieldAt(T, p).type) THEN [st EXCEPT !.rec[p] = v] ELSE Panic(st)

-----------------------------------------------------------------------------
(* Value coercion, src/load.go:276-370 *)

\* A parseAndSetBool that reads the value as strconv.ParseBool does.
parseAndSetBoolLenient(T, envName, p, value, st) ==
  CASE value \in {<<"t", "r", "u", "e">>, <<"T", "r", "u", "e">>, <<"1">>} ->
         Ok(SetField(T, st, p, TRUE))
    [] value \in {<<"f", "a", "l", "s", "e">>, <<"0">>} ->
         Ok(SetField(T, st, p, FALSE))
    [] OTHER ->
         Fail(st, envName,
              envName \o <<" must be \"true\" or \"false\". Got \"">>
                      \o value \o <<"\"">>)

parseAndSetBool(T, envName, p, value, st) ==
  CASE value = <<"t", "r", "u", "e">> -> Ok(SetField(T, st, p, TRUE))
    [] value = <<"f", "a", "l", "s", "e">> -> Ok(SetField(T, st, p, FALSE))
    [] OTHER ->
         Fail(st, envName,
              envName \o <<" must be \"true\" or \"false\". Got \"">>
                      \o value \o <<"\"">>)

\* strconv.ParseInt(value, 10, 64)
parseInt(value) ==
  IF ParseIntOk(value) THEN [ok |-> TRUE, v |-> DecimalOf(value)]
  ELSE [ok |-> FALSE, v |-> 0]

\* A parseAndSetInt that adds the parsed number to the one the field holds.
parseAndSetIntAdding(T, envName, p, value, st) ==
  LET parsed == parseInt(value)
  IN  IF ~parsed.ok
        THEN Fail(st, envName,
                  envName \o <<" must be an int. Got \"">> \o value \o <<"\"">>)
        ELSE Ok(SetField(T, st, p, st.rec[p] + parsed.v))

parseAndSetInt(T, envName, p, value, st) ==
  LET parsed == parseInt(value)
  IN  IF ~parsed.ok
        THEN Fail(st, envName,
                  envName \o <<" must be an int. Got \"">> \o value \o <<"\"">>)
        ELSE Ok(SetField(T, st, p, parsed.v))

\* big.Int{}.SetString(value, 10)
parseBigInt(value) ==
  IF IsDecimal(value) THEN [ok |-> TRUE, v |-> DecimalOf(value)]
  ELSE [ok |-> FALSE, v |-> 0]

parseAndSetBigInt(T, envName, p, value, st) ==
  LET parsed == parseBigInt(value)
  IN  IF ~parsed.ok
        THEN Fail(st, envName,
                  envName \o <<" must be a base-10 big.Int. Got \"">>
                          \o value \o <<"\"">>)
        ELSE Ok(SetField(T, st, p, parsed.v))

parseAndSetBigIntPointer(T, envName, p, value, st) ==
  LET parsed == parseBigInt(value)
  IN  IF ~parsed.ok
        THEN Fail(st, envName,
                  envName \o <<" must be a base-10 big.Int. Got \"">>
                          \o value \o <<"\"">>)
        ELSE Ok(SetField(T, st, p, <<parsed.v>>))

\* A parseCommaSeparatedStrings that splits the empty string too.
parseCommaSeparatedStringsPlain(value) == Split(value)

parseCommaSeparatedStrings(value) ==
  IF value = <<>> THEN <<>> ELSE Split(value)

\* The last index of stringSlice that strconv.Atoi rejects, 0 when none.
LastBad(stringSlice) ==
  IF \A i \in 1..Len(stringSlice) : IsDecimal(stringSlice[i]) THEN 0
  ELSE CHOOSE i \in 1..Len(stringSlice) :
         /\ ~IsDecimal(stringSlice[i])
         /\ \A j \in (i + 1)..Len(stringSlice) : IsDecimal(stringSlice[j])

\* The first index of stringSlice that strconv.Atoi rejects, 0 when none.
FirstBad(stringSlice) ==
  IF \A i \in 1..Len(stringSlice) : IsDecimal(stringSlice[i]) THEN 0
  ELSE CHOOSE i \in 1..Len(stringSlice) :
         /\ ~IsDecimal(stringSlice[i])
         /\ \A j \in 1..(i - 1) : IsDecimal(stringSlice[j])

parseCommaSeparatedInts(value) ==
  IF value = <<>> THEN [ok |-> TRUE, v |-> <<>>, msg |-> <<>>]
  ELSE LET stringSlice == Split(value)
           bad == FirstBad(stringSlice)
       IN  IF bad # 0
             THEN [ok |-> FALSE, v |-> <<>>,
                   msg |-> <<"value \"">> \o value
                             \o <<"\" contains a non-int at index ">>
                             \o <<DigitChar(bad - 1)>>]
             ELSE [ok |-> TRUE,
                   v |-> [i \in 1..Len(stringSlice) |->
                            DecimalOf(stringSlice[i])],
                   msg |-> <<>>]

parseAndSetIntSlice(T, envName, p, value, st) ==
  LET parsed == parseCommaSeparatedInts(value)
  IN  IF ~parsed.ok THEN Fail(st, envName, parsed.msg)
      ELSE Ok(SetField(T, st, p, parsed.v))

-----------------------------------------------------------------------------
(* Value coercion of the revision with unsigned integers,                  *)
(* src/load.go:86-204.  Its messages quote neither the key nor the value.  *)

parseAndSetBoolBare(T, envName, p, value, st) ==
  CASE value = <<"t", "r", "u", "e">> -> Ok(SetField(T, st, p, TRUE))
    [] value = <<"f", "a", "l", "s", "e">> -> Ok(SetField(T, st, p, FALSE))
    [] OTHER -> Fail(st, envName, <<"must be \"true\" or \"false\"">>)

parseAndSetIntBare(T, envName, p, value, st) ==
  LET parsed == parseInt(value)
  IN  IF ~parsed.ok THEN Fail(st, envName, <<"must be an int">>)
      ELSE Ok(SetField(T, st, p, parsed.v))

\* A parseAndSetUInt that stores the maximum ParseUint returns with a
\* range error before it reports the failure.
parseAndSetUIntClamping(T, envName, p, value, bitSize, st) ==
  LET parsed == ParseUint(value, bitSize)
  IN  IF parsed.err = "range"
        THEN Fail(SetField(T, st, p, parsed.v), envName,
                  <<"has a max value of ">> \o parsed.v)
      ELSE IF parsed.err = "syntax"
        THEN IF ParseIntOk(value)
               THEN Fail(st, envName, <<"has a min value of 0">>)
               ELSE Fail(st, envName, <<"must be a uint">> \o FormatInt(bitSize))
      ELSE Ok(SetField(T, st, p, parsed.v))

\* parseAndSetUInt, src/load.go:113-135
parseAndSetUInt(T, envName, p, value, bitSize, st) ==
  LET parsed == ParseUint(value, bitSize)
  IN  IF parsed.err = "range"
        THEN Fail(st, envName, <<"has a max value of ">> \o parsed.v)
      ELSE IF parsed.err = "syntax"
        THEN IF ParseIntOk(value)
               THEN Fail(st, envName, <<"has a min value of 0">>)
               ELSE Fail(st, envName, <<"must be a uint">> \o FormatInt(bitSize))
      ELSE Ok(SetField(T, st, p, parsed.v))

parseAndSetBigIntBare(T, envName, p, value, st) ==
  LET parsed == parseBigInt(value)
  IN  IF ~parsed.ok THEN Fail(st, envName, <<"must be a base-10 big.Int">>)
      ELSE Ok(SetField(T, st, p, parsed.v))

parseAndSetBigIntPointerBare(T, envName, p, value, st) ==
  LET parsed == parseBigInt(value)
  IN  IF ~parsed.ok THEN Fail(st, envName, <<"must be a base-10 big.Int">>)
      ELSE Ok(SetField(T, st, p, <<parsed.v>>))

parseCommaSeparatedIntsBare(value) ==
  IF value = <<>> THEN [ok |-> TRUE, v |-> <<>>, msg |-> <<>>]
  ELSE LET stringSlice == Split(value)
           bad == FirstBad(stringSlice)
       IN  IF bad # 0
             THEN [ok |-> FALSE, v |-> <<>>,
                   msg |-> <<"must be a comma-separated list of ints: index ",
                             DigitChar(bad - 1), " is invalid">>]
             ELSE [ok |-> TRUE,
                   v |-> [i \in 1..Len(stringSlice) |->
                            DecimalOf(stringSlice[i])],
                   msg |-> <<>>]

parseAndSetIntSliceBare(T, envName, p, value, st) ==
  LET parsed == parseCommaSeparatedIntsBare(value)
  IN  IF ~parsed.ok THEN Fail(st, envName, parsed.msg)
      ELSE Ok(SetField(T, st, p, parsed.v))

-----------------------------------------------------------------------------
(* Visitors.  A visitor is [name, prefix]; it is called with the           *)
(* environment the walk derived and the path of the field.                 *)

Called(st, p, key) == [st EXCEPT !.calls = Append(@, [path |-> p, key |-> key])]

\* The switch on value.Kind() of the Loader, src/load.go:238-272
LoaderSwitch(T, key, p, environmentValue, st1) ==
  LET type == FieldAt(T, p).type
  IN  CASE Kind(type) = "Bool" ->
             parseAndSetBool(T, key, p, environmentValue, st1)
        [] Kind(type) = "Int" ->
             parseAndSetInt(T, key, p, environmentValue, st1)
        [] Kind(type) = "String" ->
             Ok(SetField(T, st1, p, environmentValue))
        [] Kind(type) = "Slice" ->
             CASE ElemKind(type) = "String" ->
                    Ok(SetField(T, st1, p,
                         parseCommaSeparatedStrings(environmentValue)))
               [] ElemKind(type) = "Int" ->
                    parseAndSetIntSlice(T, key, p, environmentValue, st1)
               [] OTHER -> Ok(Panic(st1))
        [] Kind(type) = "Struct" ->
             IF type = "big.Int"
               THEN parseAndSetBigInt(T, key, p, environmentValue, st1)
               ELSE Ok(Panic(st1))
        [] Kind(type) = "Ptr" ->
             IF type = "*big.Int"
               THEN parseAndSetBigIntPointer(T, key, p, environmentValue, st1)
               ELSE Ok(Panic(st1))
        [] OTHER -> Ok(Panic(st1))

\* A Loader that stores the zero value in a field whose variable is unset.
LoaderClearing(T, pfx, environment, p, st) ==
  LET key == pfx \o environment
      st1 == Called(st, p, key)
  IN  IF ~IsSet(key)
        THEN Ok(SetField(T, st1, p, ZeroValue(FieldAt(T, p).type)))
        ELSE LoaderSwitch(T, key, p, LookupEnv(key), st1)

\* Loader(prefix), src/load.go:230-274
Loader(T, pfx, environment, p, st) ==
  LET key == pfx \o environment
      st1 == Called(st, p, key)
  IN  IF ~IsSet(key) THEN Ok(st1)
      ELSE LoaderSwitch(T, key, p, LookupEnv(key), st1)

\* logUnlessPassword, src/log.go:28-39.  A line is the key and either the
\* redaction mark or the value that was formatted.
logUnlessPassword(environment, value, st) ==
  IF Contains(ToLower(environment), <<"p", "a", "s", "s", "w", "o", "r", "d">>)
    THEN [st EXCEPT !.out =
            Append(@, [key |-> environment, redacted |-> TRUE, shown |-> <<>>])]
    ELSE [st EXCEPT !.out =
            Append(@, [key |-> environment, redacted |-> FALSE,
                       shown |-> <<value>>])]

\* logger(prefix), src/log.go:21-26
Logger(T, pfx, environment, p, st) ==
  LET st1 == Called(st, p, pfx \o environment)
  IN  Ok(logUnlessPassword(pfx \o environment, ValueAt(T, st1.rec, p), st1))

\* The switch on value.Kind() of the loader, src/load.go:40-82
loaderSwitch(T, key, p, environmentValue, st1) ==
  LET type == FieldAt(T, p).type
  IN  CASE Kind(type) = "Bool" ->
             parseAndSetBoolBare(T, key, p, environmentValue, st1)
        [] Kind(type) = "Int" ->
             parseAndSetIntBare(T, key, p, environmentValue, st1)
        [] Kind(type) = "Uint64" ->
             parseAndSetUInt(T, key, p, environmentValue, 64, st1)
        [] Kind(type) = "Uint32" ->
             parseAndSetUInt(T, key, p, environmentValue, 32, st1)
        [] Kind(type) = "Uint16" ->
             parseAndSetUInt(T, key, p, environmentValue, 16, st1)
        [] Kind(type) = "Uint8" ->
             parseAndSetUInt(T, key, p, environmentValue, 8, st1)
        [] Kind(type) = "String" ->
             Ok(SetField(T, st1, p, environmentValue))
        [] Kind(type) = "Slice" ->
             CASE ElemKind(type) = "String" ->
                    Ok(SetField(T, st1, p,
                         parseCommaSeparatedStrings(environmentValue)))
               [] ElemKind(type) = "Int" ->
                    parseAndSetIntSliceBare(T, key, p, environmentValue, st1)
               [] OTHER -> Ok(Panic(st1))
        [] Kind(type) = "Struct" ->
             IF type = "big.Int"
               THEN parseAndSetBigIntBare(T, key, p, environmentValue, st1)
               ELSE Ok(Panic(st1))
        [] Kind(type) = "Ptr" ->
             IF type = "*big.Int"
               THEN parseAndSetBigIntPointerBare(T, key, p, environmentValue, st1)
               ELSE Ok(Panic(st1))
        [] OTHER -> Ok(Panic(st1))

\* loader(prefix), src/load.go:32-84
loader(T, pfx, environment, p, st) ==
  LET key == pfx \o environment
      st1 == Called(st, p, key)
  IN  IF ~IsSet(key) THEN Ok(st1)
      ELSE loaderSwitch(T, key, p, LookupEnv(key), st1)

\* panic(err) with the *VisitError the delegate returned, src/load.go:221-223
PanicOnError(r) ==
  IF r.err = <<>> \/ r.st.panic THEN r
  ELSE Ok(PanicWith(r.st, [kind |-> "VisitError", Key |-> r.err[1].Key,
                           msg |-> r.err[1].msg, errs |-> <<>>]))

\* MustLoader(prefix), src/load.go:218-226
MustLoader(T, pfx, environment, p, st) ==
  PanicOnError(Loader(T, pfx, environment, p, st))

ApplyVisitor(T, visitor, environment, p, st) ==
  CASE visitor.name = "Loader" ->
         Loader(T, visitor.prefix, environment, p, st)
    [] visitor.name = "MustLoader" ->
         MustLoader(T, visitor.prefix, environment, p, st)
    [] visitor.name = "loader" ->
         loader(T, visitor.prefix, environment, p, st)
    [] visitor.name = "logger" ->
         Logger(T, visitor.prefix, environment, p, st)

-----------------------------------------------------------------------------
(* The traversal engine *)

\* A walk that takes a nil pointer for an allocated, zero-valued record.
IsNilAtAllocated(T, st, p) == FALSE

\* theValue.Elem().Field(i) panics when theValue is a nil pointer.
IsNilAt(T, st, p) ==
  /\ p # <<>>
  /\ \/ T[p].type = "*struct" /\ st.rec[p] = FALSE
     \/ T[p].type = "*big.Int" /\ st.rec[p] = <<>>

Failed(st, err) == [st EXCEPT !.fails = Append(@, err)]

\* src/visit.go:39-49: what doVisit does with the visitor's result r
Collect(r) ==
  IF r.err = <<>> \/ r.st.panic THEN r.st
  ELSE [Failed(r.st, r.err[1]) EXCEPT !.errs =
          IF r.st.errs.isNil
            THEN NewError(r.err[1].Key, r.err[1].msg)
            ELSE [r.st.errs EXCEPT !.invalidKeys =
                    MapPut(@, r.err[1].Key, r.err[1].msg)]]

\* A walk that derives a field's environment from its predecessor's.
RECURSIVE doVisitChained(_, _, _, _, _, _)
doVisitChained(T, environmentSoFar, p, i, visitor, st) ==
  IF st.panic \/ i > NumField(T, p) THEN st
  ELSE IF IsNilAt(T, st, p) THEN Panic(st)
  ELSE
    LET f == p \o <<i>>
        environment == environmentSoFar \o <<"_">> \o FieldAt(T, f).tag
    IN  doVisitChained(T, environment, p, i + 1, visitor,
          IF Kind(FieldAt(T, f).type) = "Ptr"
            THEN doVisitChained(T, environment, f, 1, visitor, st)
            ELSE Collect(ApplyVisitor(T, visitor, environment, f, st)))

\* doVisit, src/visit.go:28-53: fields i.. of the struct at path p.
RECURSIVE doVisit(_, _, _, _, _, _)
doVisit(T, environmentSoFar, p, i, visitor, st) ==
  IF st.panic \/ i > NumField(T, p) THEN st
  ELSE IF IsNilAt(T, st, p) THEN Panic(st)
  ELSE
    LET f == p \o <<i>>
        environment == environmentSoFar \o <<"_">> \o FieldAt(T, f).tag
    IN  doVisit(T, environmentSoFar, p, i + 1, visitor,
          IF Kind(FieldAt(T, f).type) = "Ptr"
            THEN doVisit(T, environment, f, 1, visitor, st)
            ELSE Collect(ApplyVisitor(T, visitor, environment, f, st)))

\* terminalTypes, src/log.go:156-159
terminalTypes == {"big.Int", "*big.Int"}

\* src/log.go:171-173 and 178-180: the visitor's result r merged by Append
CollectAppend(r) ==
  IF r.err = <<>> \/ r.st.panic THEN r.st
  ELSE [Failed(r.st, r.err[1]) EXCEPT !.errs =
          AppendErr(r.st.errs, r.err[1].Key, r.err[1].msg)]

\* doVisit, src/log.go:161-184
RECURSIVE doVisitTerminal(_, _, _, _, _, _)
doVisitTerminal(T, environmentSoFar, p, i, visitor, st) ==
  IF st.panic \/ i > NumField(T, p) THEN st
  ELSE IF IsNilAt(T, st, p) THEN Panic(st)
  ELSE
    LET f == p \o <<i>>
        environment == environmentSoFar \o <<"_">> \o FieldAt(T, f).tag
    IN  doVisitTerminal(T, environmentSoFar, p, i + 1, visitor,
          IF Kind(FieldAt(T, f).type) = "Ptr"
               /\ FieldAt(T, f).type \notin terminalTypes
            THEN doVisitTerminal(T, environment, f, 1, visitor, st)
            ELSE CollectAppend(ApplyVisitor(T, visitor, environment, f, st)))

\* Visit(container, visitor): src/visit.go:24-26 and src/log.go:151-153
Visit(T, r, visitor) ==
  IF rev = "visit"
    THEN doVisit(T, <<>>, <<>>, 1, visitor, Walk(r, NilError))
    ELSE doVisitTerminal(T, <<>>, <<>>, 1, visitor, Walk(r, NilError))

\* visit(container, visitor) of src/load.go:27 and src/log.go:13.  The tree
\* holds no unexported visit; the latest Visit it holds, src/log.go:151-153
\* with the doVisit of src/log.go:161-184, stands for it.
visit(T, r, visitor) ==
  doVisitTerminal(T, <<>>, <<>>, 1, visitor, Walk(r, NilError))

\* if err != nil { panic(err) }, src/load.go:18-20
PanicOnTraversalError(st) ==
  IF st.panic \/ st.errs.isNil THEN st
  ELSE PanicWith(st, [kind |-> "TraversalError", Key |-> <<>>, msg |-> <<>>,
                      errs |-> <<st.errs>>])

-----------------------------------------------------------------------------
(* The program as a state machine *)

NoCall == [op |-> "none", key |-> <<>>, msg |-> <<>>, predicate |-> FALSE,
           result |-> FALSE, text |-> <<>>]

\* Environments over the keys ks with at most n variables set, to values
\* of vs.
EnvsOver(ks, n, vs) ==
  UNION { { [k \in ks |-> IF k \in S THEN <<f[k]>> ELSE <<>>] :
              f \in [S -> vs] } :
          S \in {X \in SUBSET ks : Cardinality(X) <= n} }

Envs(ks, n) == EnvsOver(ks, n, Values)

\* The state before the first call, with one of the environments es.
StartIn(es) ==
  /\ env \in es
  /\ rec \in Containers(StructType(cfgType))
  /\ errs = NilError
  /\ calls = <<>>
  /\ fails = <<>>
  /\ out = <<>>
  /\ panicked = FALSE
  /\ abort = <<>>
  /\ last = NoCall
  /\ pre = [rec |-> rec, errs |-> NilError]
  /\ nLoads = 0
  /\ nCalls = 0

Start(ks, n) == StartIn(Envs(ks, n))

Init ==
  /\ cfgType \in TypeNames
  /\ rev \in {"visit", "log"}
  /\ prefix \in Prefixes
  /\ Start(EnvKeys(StructType(cfgType), prefix), MaxSet)

\* What a Visit call leaves behind.  The caller's error variable stays as
\* it was when the call panics or when its result is dropped.
Visited(st, dropped) ==
  /\ rec' = st.rec
  /\ errs' = IF st.panic \/ dropped THEN errs ELSE st.errs
  /\ calls' = st.calls
  /\ fails' = st.fails
  /\ out' = st.out
  /\ panicked' = st.panic
  /\ abort' = st.value

\* err := configs.Visit(&cfg, configs.Loader(prefix))
Load ==
  /\ ~panicked
  /\ nLoads < MaxLoads
  /\ Visited(Visit(StructType(cfgType), rec,
                   [name |-> "Loader", prefix |-> prefix]), FALSE)
  /\ last' = [NoCall EXCEPT !.op = "Load"]
  /\ pre' = [rec |-> rec, errs |-> errs]
  /\ nLoads' = nLoads + 1
  /\ UNCHANGED <<cfgType, rev, prefix, env, nCalls>>

\* configs.Visit(&cfg, configs.Logger(prefix)); the result is dropped
Log ==
  /\ ~panicked
  /\ nLoads < MaxLoads
  /\ Visited(Visit(StructType(cfgType), rec,
                   [name |-> "logger", prefix |-> prefix]), TRUE)
  /\ last' = [NoCall EXCEPT !.op = "Log"]
  /\ pre' = [rec |-> rec, errs |-> errs]
  /\ nLoads' = nLoads + 1
  /\ UNCHANGED <<cfgType, rev, prefix, env, nCalls>>

Next == Load \/ Log

Spec == Init /\ [][Next]_vars

-----------------------------------------------------------------------------
(* The loads that must succeed *)

\* configs.Visit(&cfg, configs.MustLoader(prefix)), src/log.go:113
MustLoad ==
  /\ ~panicked
  /\ nLoads < MaxLoads
  /\ Visited(Visit(StructType(cfgType), rec,
                   [name |-> "MustLoader", prefix |-> prefix]), TRUE)
  /\ last' = [NoCall EXCEPT !.op = "MustLoad"]
  /\ pre' = [rec |-> rec, errs |-> errs]
  /\ nLoads' = nLoads + 1
  /\ UNCHANGED <<cfgType, rev, prefix, env, nCalls>>

\* err := configs.LoadWithPrefix(&cfg, prefix), src/load.go:26-28
LoadWithPrefix ==
  /\ ~panicked
  /\ nLoads < MaxLoads
  /\ Visited(visit(StructType(cfgType), rec,
                   [name |-> "loader", prefix |-> prefix]), FALSE)
  /\ last' = [NoCall EXCEPT !.op = "LoadWithPrefix"]
  /\ pre' = [rec |-> rec, errs |-> errs]
  /\ nLoads' = nLoads + 1
  /\ UNCHANGED <<cfgType, rev, prefix, env, nCalls>>

\* configs.MustLoadWithPrefix(&cfg, prefix), src/load.go:16-21
MustLoadWithPrefix ==
  /\ ~panicked
  /\ nLoads < MaxLoads
  /\ Visited(PanicOnTraversalError(
               visit(StructType(cfgType), rec,
                     [name |-> "loader", prefix |-> prefix])), TRUE)
  /\ last' = [NoCall EXCEPT !.op = "MustLoadWithPrefix"]
  /\ pre' = [rec |-> rec, errs |-> errs]
  /\ nLoads' = nLoads + 1
  /\ UNCHANGED <<cfgType, rev, prefix, env, nCalls>>

InitMust ==
  /\ cfgType \in {"Config", "Clash"}
  /\ rev \in {"visit", "log"}
  /\ prefix = <<"M", "Y">>
  /\ Start(EnvKeys(StructType(cfgType), prefix), MaxSet)

NextMust == MustLoad \/ MustLoadWithPrefix \/ LoadWithPrefix

SpecMust == InitMust /\ [][NextMust]_vars

-----------------------------------------------------------------------------
(* The caller's work on the error after loading *)

\* The int leaf of the record (the second field of Config and of Secret),
\* and a key no leaf has.
CallKeys == {KeyOf(StructType(cfgType), prefix, <<2>>), prefix \o <<"_", "Z">>}

Messages == {<<"must be positive">>, <<"is invalid">>}

InitErr ==
  /\ cfgType = "Config"
  /\ rev \in {"visit", "log"}
  /\ prefix = <<"M", "Y">>
  /\ Start({KeyOf(ConfigType, prefix, <<2>>)}, 1)

\* err := &configs.TraversalError{}
NewEmpty ==
  /\ ~panicked
  /\ nCalls = 0
  /\ errs.isNil
  /\ errs' = EmptyError
  /\ last' = [NoCall EXCEPT !.op = "NewEmpty"]
  /\ pre' = [rec |-> rec, errs |-> errs]
  /\ UNCHANGED <<cfgType, rev, prefix, env, rec, calls, fails, out, panicked,
                 abort, nLoads, nCalls>>

\* err = configs.Append(err, key, msg)
AppendCall ==
  /\ ~panicked
  /\ nCalls < MaxCalls
  /\ \E key \in CallKeys, msg \in Messages :
       /\ errs' = AppendErr(errs, key, msg)
       /\ last' = [NoCall EXCEPT !.op = "Append", !.key = key, !.msg = msg]
  /\ pre' = [rec |-> rec, errs |-> errs]
  /\ nCalls' = nCalls + 1
  /\ UNCHANGED <<cfgType, rev, prefix, env, rec, calls, fails, out, panicked,
                 abort, nLoads>>

\* err = configs.Ensure(err, key, predicate, msg)
EnsureCall ==
  /\ ~panicked
  /\ nCalls < MaxCalls
  /\ \E key \in CallKeys, msg \in Messages, predicate \in BOOLEAN :
       /\ errs' = Ensure(errs, key, predicate, msg)
       /\ last' = [NoCall EXCEPT !.op = "Ensure", !.key = key, !.msg = msg,
                                 !.predicate = predicate]
  /\ pre' = [rec |-> rec, errs |-> errs]
  /\ nCalls' = nCalls + 1
  /\ UNCHANGED <<cfgType, rev, prefix, env, rec, calls, fails, out, panicked,
                 abort, nLoads>>

\* err.IsValid(key)
IsValidCall ==
  /\ ~panicked
  /\ nCalls < MaxCalls
  /\ \E key \in CallKeys :
       last' = [NoCall EXCEPT !.op = "IsValid", !.key = key,
                              !.result = IsValid(errs, key)]
  /\ pre' = [rec |-> rec, errs |-> errs]
  /\ nCalls' = nCalls + 1
  /\ UNCHANGED <<cfgType, rev, prefix, env, rec, errs, calls, fails, out,
                 panicked, abort, nLoads>>

NextErr == Load \/ NewEmpty \/ AppendCall \/ EnsureCall \/ IsValidCall

SpecErr == InitErr /\ [][NextErr]_vars

-----------------------------------------------------------------------------
(* Loading a record of scalars, and one with a leaf of an unsupported type *)

InitScalar ==
  /\ cfgType \in {"Scalar", "Odd"}
  /\ rev = "log"
  /\ prefix = <<"m">>
  /\ StartIn(EnvsOver(EnvKeys(StructType(cfgType), prefix), MaxScalarSet,
                      IF cfgType = "Scalar" THEN ScalarValues ELSE Values))

NextScalar == Load \/ LoadWithPrefix

SpecScalar == InitScalar /\ [][NextScalar]_vars

-----------------------------------------------------------------------------
(* Loading one variable into a record of each supported leaf type *)

CoerceValues(name) ==
  CASE name = "Scalar" -> ScalarValues
    [] name = "Lists" -> ListValues
    [] OTHER -> Values

InitCoerce ==
  /\ cfgType \in {"Lists", "Scalar", "Config", "BigConfig"}
  /\ rev = "log"
  /\ prefix = <<"m">>
  /\ StartIn(EnvsOver(EnvKeys(StructType(cfgType), prefix), MaxScalarSet,
                      CoerceValues(cfgType)))

NextCoerce == Load \/ LoadWithPrefix

SpecCoerce == InitCoerce /\ [][NextCoerce]_vars

-----------------------------------------------------------------------------
(* Printing the error of a record with secrets *)

\* err.Error(), src/unnamed/part_000:162-163
ErrorCall ==
  /\ ~panicked
  /\ nCalls < MaxCalls
  /\ \E text \in Error(errs) :
       last' = [NoCall EXCEPT !.op = "Error", !.text = text]
  /\ pre' = [rec |-> rec, errs |-> errs]
  /\ nCalls' = nCalls + 1
  /\ UNCHANGED <<cfgType, rev, prefix, env, rec, errs, calls, fails, out,
                 panicked, abort, nLoads>>

\* The variables of the two password leaves kept directly in Secret, at
\* most one of them set.
InitSecret ==
  /\ cfgType = "Secret"
  /\ rev \in {"visit", "log"}
  /\ prefix = <<"M", "Y">>
  /\ Start({KeyOf(SecretType, prefix, <<1>>), KeyOf(SecretType, prefix, <<2>>)}, 1)

NextSecret == Load \/ LoadWithPrefix \/ AppendCall \/ EnsureCall \/ ErrorCall

SpecSecret == InitSecret /\ [][NextSecret]_vars

-----------------------------------------------------------------------------
(* What the specification says of a record: its leaves, their keys and     *)
(* the coercion of a value to a leaf's declared type.                      *)

T == StructType(cfgType)

BranchTypes == {"*struct", "struct"}

IsLeaf(p) == T[p].type \notin BranchTypes

LeafPaths == {p \in DOMAIN T : IsLeaf(p)}

LeafKey(p) == KeyOf(T, prefix, p)

\* The leaves in depth-first field-declaration order, from field i of the
\* record at path p on.
RECURSIVE LeavesFrom(_, _)
LeavesFrom(p, i) ==
  IF (p \o <<i>>) \notin DOMAIN T THEN <<>>
  ELSE (IF IsLeaf(p \o <<i>>) THEN <<p \o <<i>>>>
        ELSE LeavesFrom(p \o <<i>>, 1)) \o LeavesFrom(p, i + 1)

WellFormed(type, value) ==
  CASE type = "bool" ->
         value \in {<<"t", "r", "u", "e">>, <<"f", "a", "l", "s", "e">>}
    [] type \in {"int", "big.Int", "*big.Int"} -> IsDecimal(value)
    [] type \in {"string", "[]string"} -> TRUE
    [] type = "[]int" ->
         value = <<>> \/ \A i \in 1..Len(Split(value)) : IsDecimal(Split(value)[i])
    [] OTHER -> FALSE

Coerced(type, value) ==
  CASE type = "bool" -> value = <<"t", "r", "u", "e">>
    [] type \in {"int", "big.Int"} -> DecimalOf(value)
    [] type = "*big.Int" -> <<DecimalOf(value)>>
    [] type = "string" -> value
    [] type = "[]string" -> IF value = <<>> THEN <<>> ELSE Split(value)
    [] type = "[]int" ->
         IF value = <<>> THEN <<>>
         ELSE [i \in 1..Len(Split(value)) |-> DecimalOf(Split(value)[i])]

\* The variable of leaf p is set to a value its type does not accept.
Malformed(p) ==
  IsSet(LeafKey(p)) /\ ~WellFormed(T[p].type, LookupEnv(LeafKey(p)))

\* Keys to query: every key that can be exported, and one no field has.
QueryKeys == EnvKeys(T, prefix) \cup {prefix \o <<"_", "Z">>}

Loaded == last.op = "Load" /\ ~panicked

\* Records whose nested records are all held by pointer, walked by an
\* engine that takes a *big.Int for a leaf.
PointerNested ==
  /\ \A p \in DOMAIN T : T[p].type # "struct"
  /\ rev = "log" \/ \A p \in DOMAIN T : T[p].type # "*big.Int"

-----------------------------------------------------------------------------
(* Claims *)

\* C1: after Load, every leaf whose derived key is not set in the
\* environment holds the value it held before Load, whatever the other
\* variables are (also when Load panicked part-way).
UnsetLeafKeepsValue ==
  last.op = "Load" =>
    \A p \in LeafPaths : ~IsSet(LeafKey(p)) => rec[p] = pre.rec[p]

\* C1 witness: a Load returned failures, overwrote one leaf and left an
\* unset leaf at its non-zero default.
UnsetLeafKeepsValueWitness ==
  /\ Loaded
  /\ ~errs.isNil
  /\ \E p \in LeafPaths :
       /\ ~IsSet(LeafKey(p))
       /\ rec[p] = PresetValue(T[p].type)
       /\ rec[p] # ZeroValue(T[p].type)
  /\ \E q \in LeafPaths : IsSet(LeafKey(q)) /\ rec[q] # pre.rec[q]

\* C2: the error Load returns has IsValid(k) false for exactly the keys k
\* of leaves whose set value fails coercion, and true for every other key.
InvalidExactlyMalformed ==
  Loaded =>
    \A k \in QueryKeys :
      IsValid(errs, k) = ~(\E p \in LeafPaths : LeafKey(p) = k /\ Malformed(p))

\* The same for records whose nested records are held by pointer.
InvalidExactlyMalformedPointerNested ==
  (Loaded /\ PointerNested) =>
    \A k \in QueryKeys :
      IsValid(errs, k) = ~(\E p \in LeafPaths : LeafKey(p) = k /\ Malformed(p))

\* C3: when every variable set for a leaf is well-formed, Load returns a
\* nil error and each such leaf holds the coerced value of its variable.
WellFormedAreLoaded ==
  (Loaded /\ \A p \in LeafPaths : ~Malformed(p)) =>
    /\ errs.isNil
    /\ \A p \in LeafPaths :
         IsSet(LeafKey(p)) =>
           rec[p] = Coerced(T[p].type, LookupEnv(LeafKey(p)))

\* The same for records whose nested records are held by pointer.
WellFormedAreLoadedPointerNested ==
  (Loaded /\ PointerNested /\ \A p \in LeafPaths : ~Malformed(p)) =>
    /\ errs.isNil
    /\ \A p \in LeafPaths :
         IsSet(LeafKey(p)) =>
           rec[p] = Coerced(T[p].type, LookupEnv(LeafKey(p)))

\* C4: a Visit that returns has called the visitor exactly once for every
\* leaf of the record, in depth-first field-declaration order, failures of
\* earlier leaves notwithstanding.
EveryLeafVisitedOnce ==
  (last.op \in {"Load", "Log"} /\ ~panicked) =>
    [i \in 1..Len(calls) |-> calls[i].path] = LeavesFrom(<<>>, 1)

\* The same for records whose nested records are held by pointer.
EveryLeafVisitedOncePointerNested ==
  (last.op \in {"Load", "Log"} /\ ~panicked /\ PointerNested) =>
    [i \in 1..Len(calls) |-> calls[i].path] = LeavesFrom(<<>>, 1)

\* C5: the key the Loader looks up and the Logger prints for a field is
\* the prefix followed by "_" and the tag of each field on the path to it.
KeyIsPrefixAndTagPath ==
  /\ \A i \in 1..Len(calls) :
       calls[i].key = KeyOf(T, prefix, calls[i].path)
  /\ \A i \in 1..Len(out) :
       out[i].key = KeyOf(T, prefix, calls[i].path)

\* C5 witness: the Loader was called on a leaf of a nested record, after
\* the leaf before it failed.
KeyIsPrefixAndTagPathWitness ==
  /\ Loaded
  /\ \E i \in 1..Len(calls) :
       /\ Len(calls[i].path) = 2
       /\ calls[i].key = prefix \o <<"_", "N", "_", "V">>
  /\ fails # <<>>

\* C6: when the visitor failed for two leaves under the same key, the
\* returned error holds for that key the earlier message, the separator
\* and the later message.
BothFailuresKept ==
  (last.op = "Load" /\ ~panicked) =>
    \A i, j \in 1..Len(fails) :
      (i < j /\ fails[i].Key = fails[j].Key) =>
        errs.invalidKeys[fails[i].Key] =
          fails[i].msg \o Separator \o fails[j].msg

\* The same with the engine that merges failures by Append.
BothFailuresKeptByAppend ==
  (last.op = "Load" /\ ~panicked /\ rev = "log") =>
    \A i, j \in 1..Len(fails) :
      (i < j /\ fails[i].Key = fails[j].Key) =>
        errs.invalidKeys[fails[i].Key] =
          fails[i].msg \o Separator \o fails[j].msg

\* Two leaves failed under one key in a walk that returned.
TwoFailuresUnderOneKey ==
  /\ last.op = "Load" /\ ~panicked
  /\ \E i, j \in 1..Len(fails) : i < j /\ fails[i].Key = fails[j].Key

\* What Append(e, key, msg) must return: r holds key, with msg alone when
\* e had no entry for it and with msg added after the entry and the
\* separator when it had; every other entry of e is in r as it was.
AppendResult(e, key, msg, r) ==
  /\ ~r.isNil
  /\ ~IsValid(r, key)
  /\ e.isNil => DOMAIN r.invalidKeys = {key} /\ r.invalidKeys[key] = msg
  /\ ~e.isNil =>
       /\ DOMAIN r.invalidKeys = DOMAIN e.invalidKeys \cup {key}
       /\ \A k \in DOMAIN e.invalidKeys \ {key} :
            r.invalidKeys[k] = e.invalidKeys[k]
       /\ r.invalidKeys[key] =
            IF key \in DOMAIN e.invalidKeys
              THEN e.invalidKeys[key] \o Separator \o msg
              ELSE msg

\* C7: Append on an absent error returns an error with the one entry
\* key -> message; on an error that holds key, the entry becomes the old
\* message, the separator and the new message; otherwise the entry is
\* added.  IsValid(key) is false on the result.
AppendMerges ==
  last.op = "Append" => AppendResult(pre.errs, last.key, last.msg, errs)

\* C7 witness: Append on a key for which Load had reported a failure.
AppendMergesWitness ==
  /\ last.op = "Append"
  /\ nCalls = 1
  /\ fails # <<>>
  /\ last.key \in DOMAIN pre.errs.invalidKeys
  /\ errs.invalidKeys[last.key] = fails[1].msg \o Separator \o last.msg

\* C8: Ensure with a true predicate returns the error it was given,
\* absent or populated, unchanged; with a false predicate it returns what
\* Append returns, so a failure already held for the key is kept and the
\* new message follows it.
EnsureIsGuardedAppend ==
  last.op = "Ensure" =>
    IF last.predicate THEN errs = pre.errs
    ELSE AppendResult(pre.errs, last.key, last.msg, errs)

\* C8 witness: Ensure with a false predicate on a key for which Load had
\* reported a failure.
EnsureIsGuardedAppendWitness ==
  /\ last.op = "Ensure"
  /\ ~last.predicate
  /\ nCalls = 1
  /\ fails # <<>>
  /\ last.key \in DOMAIN pre.errs.invalidKeys
  /\ errs.invalidKeys[last.key] = fails[1].msg \o Separator \o last.msg

\* C9: IsValid(k) is false exactly when the error is present and holds an
\* entry for k, also on the absent error and on one with no map; the
\* query leaves the error as it was.
IsValidIffNoEntry ==
  last.op = "IsValid" =>
    /\ last.result = ~(~pre.errs.isNil
                        /\ last.key \in DOMAIN pre.errs.invalidKeys)
    /\ errs = pre.errs

\* C9 witness: the query answered true on an error made with no map, and
\* the error is still without a map.
IsValidIffNoEntryWitness ==
  /\ last.op = "IsValid"
  /\ last.result
  /\ ~errs.isNil
  /\ ~errs.hasMap

\* C10: an Append or Ensure call never removes a key: a key for which
\* IsValid is false before the call is one for which it is false after.
KeysOnlyGrow ==
  [][last'.op \in {"Append", "Ensure"} =>
       \A k \in QueryKeys \cup DOMAIN errs.invalidKeys :
         ~IsValid(errs, k) => ~IsValid(errs', k)]_vars

\* C10 witness: a second key was added to an error that held one from
\* Load.
KeysOnlyGrowWitness ==
  /\ last.op \in {"Append", "Ensure"}
  /\ fails # <<>>
  /\ Cardinality(DOMAIN pre.errs.invalidKeys) = 1
  /\ Cardinality(DOMAIN errs.invalidKeys) = 2

\* The texts a recovered panic value may print: the message of the
\* *VisitError, or what Error returns for the *TraversalError.
PanicText(v) ==
  CASE v.kind = "VisitError" -> {v.msg}
    [] v.kind = "TraversalError" -> Error(v.errs[1])
    [] OTHER -> {}

\* The panic value v, printed as text, names the key k: the text holds
\* it, or v is the *VisitError of k.
Names(v, text, k) ==
  Contains(text, k) \/ (v.kind = "VisitError" /\ v.Key = k)

\* The outcome of a must-succeed load against st, what Load leaves for the
\* same record, prefix and environment.
MustAgrees(st) ==
  ~st.panic =>
    /\ panicked <=> ~st.errs.isNil
    /\ panicked =>
         /\ PanicText(abort[1]) # {}
         /\ \A k \in DOMAIN st.errs.invalidKeys :
              \A text \in PanicText(abort[1]) :
                /\ Names(abort[1], text, k)
                /\ Contains(text, st.errs.invalidKeys[k])
    /\ ~panicked => rec = st.rec

\* C11: a must-succeed load aborts exactly when Load over the same record,
\* prefix and environment returns a populated error, the text of the abort
\* names every key of that error with its message, and a load that does
\* not abort leaves the values Load leaves.
MustLoadAbortsWithEveryFailure ==
  /\ last.op = "MustLoad" =>
       MustAgrees(Visit(T, pre.rec, [name |-> "Loader", prefix |-> prefix]))
  /\ last.op = "MustLoadWithPrefix" =>
       MustAgrees(visit(T, pre.rec, [name |-> "loader", prefix |-> prefix]))

\* The same for MustLoadWithPrefix alone, whose abort carries the error
\* LoadWithPrefix returns.
MustLoadWithPrefixAbortsWithEveryFailure ==
  last.op = "MustLoadWithPrefix" =>
    /\ MustAgrees(visit(T, pre.rec, [name |-> "loader", prefix |-> prefix]))
    /\ panicked /\ abort[1].kind = "TraversalError" =>
         PanicText(abort[1]) =
           Error(visit(T, pre.rec, [name |-> "loader", prefix |-> prefix]).errs)

\* Two leaves were malformed and MustLoader aborted at the first.
MustLoaderAbortedAtFirstOfTwo ==
  /\ last.op = "MustLoad"
  /\ panicked
  /\ abort[1].kind = "VisitError"
  /\ Cardinality({p \in LeafPaths : Malformed(p)}) = 2

Password == <<"p", "a", "s", "s", "w", "o", "r", "d">>

\* The line the Logger owes the leaf p: its key, and either the redaction
\* mark and nothing of the value, or the value the leaf holds.
LineOf(p) ==
  IF Contains(ToLower(LeafKey(p)), Password)
    THEN [key |-> LeafKey(p), redacted |-> TRUE, shown |-> <<>>]
    ELSE [key |-> LeafKey(p), redacted |-> FALSE, shown |-> <<rec[p]>>]

\* C12: the Logger writes exactly one line for every leaf, redacted when
\* the lower-cased key holds "password" and showing the leaf's value
\* otherwise; it returns no failure and leaves every field as it was.
LoggerLogsEveryLeaf ==
  (last.op = "Log" /\ ~panicked) =>
    /\ out = [i \in 1..Len(LeavesFrom(<<>>, 1)) |-> LineOf(LeavesFrom(<<>>, 1)[i])]
    /\ fails = <<>>
    /\ rec = pre.rec

\* The same for records whose nested records are held by pointer.
LoggerLogsEveryLeafPointerNested ==
  (last.op = "Log" /\ ~panicked /\ PointerNested) =>
    /\ out = [i \in 1..Len(LeavesFrom(<<>>, 1)) |-> LineOf(LeavesFrom(<<>>, 1)[i])]
    /\ fails = <<>>
    /\ rec = pre.rec

\* Every line the Logger does write for a leaf is the line owed to it.
LoggerLinesAreRight ==
  (last.op = "Log" /\ ~panicked) =>
    /\ Len(out) = Len(calls)
    /\ \A i \in 1..Len(out) :
         calls[i].path \in LeafPaths => out[i] = LineOf(calls[i].path)
    /\ fails = <<>>
    /\ rec = pre.rec

\* The Logger redacted the line of a leaf whose variable is set.
LoggerRedactedSetLeaf ==
  /\ last.op = "Log" /\ ~panicked
  /\ \E i \in 1..Len(out) :
       /\ out[i].redacted
       /\ calls[i].path \in LeafPaths
       /\ IsSet(out[i].key)
       /\ rec[calls[i].path] = LookupEnv(out[i].key)

\* The leaves whose key holds "password" and whose variable is set to a
\* non-empty value.
SecretLeaves ==
  {p \in LeafPaths :
     /\ Contains(ToLower(LeafKey(p)), Password)
     /\ IsSet(LeafKey(p))
     /\ LookupEnv(LeafKey(p)) # <<>>}

\* C13: the text Error returns for the error of a Load, with what Append
\* and Ensure added to it, never holds the value of a variable whose name
\* holds "password", well-formed or not and whatever the leaf's type.
ErrorTextHidesPasswords ==
  last.op = "Error" =>
    \A p \in SecretLeaves : ~Contains(last.text, LookupEnv(LeafKey(p)))

\* The same for the text of the error LoadWithPrefix returns, whose
\* messages quote no value.
LoadWithPrefixErrorHidesPasswords ==
  last.op = "LoadWithPrefix" =>
    \A text \in Error(errs) :
      \A p \in SecretLeaves : ~Contains(text, LookupEnv(LeafKey(p)))

\* The error of a password leaf that failed was printed.
PasswordFailurePrinted ==
  /\ last.op = "Error"
  /\ \E p \in SecretLeaves : Contains(last.text, LeafKey(p)) /\ Malformed(p)

\* The leaves declared in the nested record at path p.
LeavesIn(p) == {q \in LeafPaths : Len(q) = Len(p) + 1 /\ Front(q) = p}

\* C14: a nested record held by value is a branch: a Visit that returns
\* has not called the visitor on the record's field, has called it on
\* each of the record's leaves with the leaf's key, and a Load has set
\* those leaves from their well-formed variables.
ByValueNestedIsBranch ==
  (last.op \in {"Load", "Log"} /\ ~panicked) =>
    \A p \in {q \in DOMAIN T : T[q].type = "struct"} :
      /\ \A i \in 1..Len(calls) : calls[i].path # p
      /\ \A q \in LeavesIn(p) :
           /\ \E i \in 1..Len(calls) :
                calls[i].path = q /\ calls[i].key = LeafKey(q)
           /\ (last.op = "Load" /\ IsSet(LeafKey(q))
                 /\ WellFormed(T[q].type, LookupEnv(LeafKey(q)))) =>
                rec[q] = Coerced(T[q].type, LookupEnv(LeafKey(q)))

\* What the walk does instead: the visitor is called on the field of the
\* nested record and on none of the record's leaves, which keep the
\* values they had.
ByValueNestedIsVisitedWhole ==
  (last.op \in {"Load", "Log"} /\ ~panicked) =>
    \A p \in {q \in DOMAIN T : T[q].type = "struct"} :
      /\ \E i \in 1..Len(calls) : calls[i].path = p
      /\ \A q \in LeavesIn(p) :
           /\ \A i \in 1..Len(calls) : calls[i].path # q
           /\ rec[q] = pre.rec[q]

\* The nested record that declares the field at p is there to walk.
Reachable(r, p) == Len(p) = 1 \/ r[Front(p)] = TRUE

\* What is owed to the *big.Int field at p by a Visit over a record whose
\* nested records are allocated: the Visit returns, the visitor was called
\* once on the field with its key and on nothing below it, a Load has set
\* the field to the parsed value of a well-formed variable and reports a
\* malformed one under the key.
TreatedAsLeaf(p) ==
  /\ ~panicked
  /\ Cardinality({i \in 1..Len(calls) : calls[i].path = p}) = 1
  /\ \A i \in 1..Len(calls) :
       /\ calls[i].path = p => calls[i].key = LeafKey(p)
       /\ ~(Len(calls[i].path) > Len(p)
             /\ SubSeq(calls[i].path, 1, Len(p)) = p)
  /\ (last.op = "Load" /\ IsSet(LeafKey(p))) =>
       IF WellFormed("*big.Int", LookupEnv(LeafKey(p)))
         THEN /\ rec[p] = <<DecimalOf(LookupEnv(LeafKey(p)))>>
              /\ IsValid(errs, LeafKey(p))
         ELSE ~IsValid(errs, LeafKey(p))

\* C15: a *big.Int field, nil or not, is a leaf of the walk.
BigIntPointerIsLeaf ==
  last.op \in {"Load", "Log"} =>
    \A p \in {q \in DOMAIN T : T[q].type = "*big.Int"} :
      Reachable(pre.rec, p) => TreatedAsLeaf(p)

\* The same for the walk of src/log.go, which knows the terminal types.
BigIntPointerIsLeafTerminal ==
  (last.op \in {"Load", "Log"} /\ rev = "log") =>
    \A p \in {q \in DOMAIN T : T[q].type = "*big.Int"} :
      Reachable(pre.rec, p) => TreatedAsLeaf(p)

\* A Load set a nil *big.Int field from its variable.
NilBigIntPointerLoaded ==
  /\ Loaded
  /\ \E p \in {q \in DOMAIN T : T[q].type = "*big.Int"} :
       /\ pre.rec[p] = <<>>
       /\ IsSet(LeafKey(p))
       /\ WellFormed("*big.Int", LookupEnv(LeafKey(p)))
       /\ rec[p] = <<DecimalOf(LookupEnv(LeafKey(p)))>>

\* The declared types the visitor of a load has no case for: a float64
\* for both Loaders, and the unsigned integers for the Loader of
\* src/load.go:230.
UnsupportedBy(op) ==
  IF op = "Load" THEN {"float64"} \cup UintTypes ELSE {"float64"}

UnsupportedLeaves == {p \in LeafPaths : T[p].type \in UnsupportedBy(last.op)}

\* C16: a Load of a record that declares a leaf of an unsupported type
\* panics, whatever the environment, and the caller gets no error back.
UnsupportedLeafPanics ==
  (last.op \in {"Load", "LoadWithPrefix"} /\ UnsupportedLeaves # {}) =>
    panicked /\ errs = pre.errs

\* What the Loaders do: the load panics exactly when the variable of an
\* unsupported leaf is set, with no failure recorded under its key.
UnsupportedLeafPanicsWhenSet ==
  (last.op \in {"Load", "LoadWithPrefix"} /\ UnsupportedLeaves # {}) =>
    /\ panicked <=> \E p \in UnsupportedLeaves : IsSet(LeafKey(p))
    /\ panicked => errs = pre.errs /\ abort = <<RuntimePanic>>
    /\ \A p \in UnsupportedLeaves, i \in 1..Len(fails) :
         fails[i].Key # LeafKey(p)

\* A load returned from a record with an unsupported leaf.
UnsupportedLeafPassedOver ==
  /\ last.op \in {"Load", "LoadWithPrefix"}
  /\ UnsupportedLeaves # {}
  /\ ~panicked

\* The field at path a is declared before the one at path b, and is not
\* inside it.
DeclaredBefore(a, b) ==
  \E i \in 1..Len(a) :
    /\ i <= Len(b)
    /\ a[i] < b[i]
    /\ \A j \in 1..(i - 1) : a[j] = b[j]

\* The nested records of the container that were nil before the call.
NilNested == {p \in DOMAIN T : T[p].type = "*struct" /\ pre.rec[p] = FALSE}

\* C17: a Visit over a record with a nil pointer to a nested record
\* panics with no error returned; the pointer is still nil, and the
\* visitor was called on no field inside or after the nested record.
NilNestedPanics ==
  last.op \in {"Load", "Log"} =>
    \A p \in NilNested :
      /\ panicked
      /\ abort = <<RuntimePanic>>
      /\ errs = pre.errs
      /\ rec[p] = FALSE
      /\ \A i \in 1..Len(calls) : DeclaredBefore(calls[i].path, p)
      /\ \A q \in DOMAIN T : ~DeclaredBefore(q, p) => rec[q] = pre.rec[q]

\* C17 witness: a Load set a leaf declared before the nil nested record
\* and panicked there, with the variable of a leaf inside it set.
NilNestedPanicsWitness ==
  /\ last.op = "Load"
  /\ panicked
  /\ \E p \in NilNested :
       /\ \E q \in LeavesIn(p) : IsSet(LeafKey(q))
       /\ \E q \in LeafPaths : DeclaredBefore(q, p) /\ rec[q] # pre.rec[q]

\* C18: a Load right after a Load that returned, with the environment as
\* it was, returns too, leaves every field with the value the first gave
\* it and reports the same keys.
LoadTwiceIsSame ==
  [][(last.op = "Load" /\ ~panicked /\ last'.op = "Load") =>
       /\ ~panicked'
       /\ rec' = rec
       /\ DOMAIN errs'.invalidKeys = DOMAIN errs.invalidKeys
       /\ errs'.isNil = errs.isNil]_vars

\* C18 witness: a second Load after one that had set a leaf to a value it
\* did not hold and reported a failure; the fields are as the first left
\* them.
LoadTwiceIsSameWitness ==
  /\ last.op = "Load"
  /\ ~panicked
  /\ nLoads = 2
  /\ ~pre.errs.isNil
  /\ rec = pre.rec
  /\ \E p \in LeafPaths :
       /\ IsSet(LeafKey(p))
       /\ rec[p] \notin {ZeroValue(T[p].type), PresetValue(T[p].type)}

UintLeaves == {p \in LeafPaths : T[p].type \in UintTypes}

Width(type) ==
  CASE type = "uint8" -> 8 [] type = "uint16" -> 16
    [] type = "uint32" -> 32 [] type = "uint64" -> 64

\* What the value v is to an unsigned integer of w bits: the writing of a
\* number of the width ("value") or of a greater one ("max"), a writing
\* with a minus sign that an int64 holds ("min"), the writing with a plus
\* sign of a number of the width, as "+5" ("signed"), or anything else.
UintCase(v, w) ==
  IF AllDigits(v)
    THEN IF DigitsLess(MaxUint(w), StripZeros(v)) THEN "max" ELSE "value"
  ELSE IF IsDecimal(v) /\ v[1] = "+"
          /\ ~DigitsLess(MaxUint(w), StripZeros(Tail(v)))
    THEN "signed"
  ELSE IF IsDecimal(v) /\ v[1] = "-" /\ ParseIntOk(v) THEN "min"
  ELSE "other"

LoadedAs(p, value) == IsValid(errs, LeafKey(p)) /\ rec[p] = value

FailedWith(p, msg) ==
  ~IsValid(errs, LeafKey(p)) /\ errs.invalidKeys[LeafKey(p)] = msg

MustBeUint(w) == <<"must be a uint">> \o FormatInt(w)

\* What LoadWithPrefix owes the unsigned leaf p set to v.  The writing
\* with a plus sign of a number of the width is either loaded or, taken
\* for "every other string", refused with the generic message.
UintOutcome(p, v, w) ==
  CASE UintCase(v, w) = "value" -> LoadedAs(p, StripZeros(v))
    [] UintCase(v, w) = "max" ->
         FailedWith(p, <<"has a max value of ">> \o MaxUint(w))
    [] UintCase(v, w) = "min" -> FailedWith(p, <<"has a min value of 0">>)
    [] UintCase(v, w) = "signed" ->
         LoadedAs(p, StripZeros(Tail(v))) \/ FailedWith(p, MustBeUint(w))
    [] OTHER -> FailedWith(p, MustBeUint(w))

\* C19: LoadWithPrefix sets an unsigned leaf of w bits from the writing of
\* a number in 0..2^w-1, reports "has a max value of 2^w-1" for a greater
\* number, "has a min value of 0" for a negative value an int64 holds,
\* and "must be a uint<w>" for every other string.
UintCoercion ==
  (last.op = "LoadWithPrefix" /\ ~panicked) =>
    \A p \in {q \in UintLeaves : IsSet(LeafKey(q))} :
      UintOutcome(p, LookupEnv(LeafKey(p)), Width(T[p].type))

\* The same for the values that are not the writing with a plus sign of
\* a number of the width.
UintCoercionUnsigned ==
  (last.op = "LoadWithPrefix" /\ ~panicked) =>
    \A p \in {q \in UintLeaves : IsSet(LeafKey(q))} :
      UintCase(LookupEnv(LeafKey(p)), Width(T[p].type)) # "signed" =>
        UintOutcome(p, LookupEnv(LeafKey(p)), Width(T[p].type))

\* A uint64 leaf was set to the greatest number of its width.
Uint64MaxLoaded ==
  /\ last.op = "LoadWithPrefix"
  /\ \E p \in UintLeaves :
       /\ T[p].type = "uint64"
       /\ IsSet(LeafKey(p))
       /\ rec[p] = MaxUint(64)
       /\ rec[p] # pre.rec[p]

BoolLeaves == {p \in LeafPaths : T[p].type = "bool"}

\* The visitor's failure for the leaf p is attributed to the key of p.
FailedAt(p) ==
  /\ ~IsValid(errs, LeafKey(p))
  /\ \E i \in 1..Len(fails) : fails[i].Key = LeafKey(p)

BoolOutcome(p, v) ==
  CASE v = <<"t", "r", "u", "e">> -> LoadedAs(p, TRUE)
    [] v = <<"f", "a", "l", "s", "e">> -> LoadedAs(p, FALSE)
    [] OTHER -> FailedAt(p) /\ rec[p] = pre.rec[p]

\* C20: a load sets a bool leaf to true from "true" and to false from
\* "false", with no failure, and reports a failure under the leaf's key
\* for every other value, the empty string, "True", "1" and "0" included.
BoolCoercion ==
  (last.op \in {"Load", "LoadWithPrefix"} /\ ~panicked) =>
    \A p \in {q \in BoolLeaves : IsSet(LeafKey(q))} :
      BoolOutcome(p, LookupEnv(LeafKey(p)))

\* Load refused "True" for a bool leaf and left it as it was.
BoolCoercionWitness ==
  /\ last.op = "Load"
  /\ ~panicked
  /\ \E p \in BoolLeaves :
       /\ IsSet(LeafKey(p))
       /\ LookupEnv(LeafKey(p)) = <<"T", "r", "u", "e">>
       /\ FailedAt(p)
       /\ rec[p] = pre.rec[p]

IntSliceLeaves == {p \in LeafPaths : T[p].type = "[]int"}

\* The elements of the list v that are no integers, by 1-based position.
BadElements(v) ==
  {i \in 1..Len(Split(v)) : ~IsDecimal(Split(v)[i])}

\* The message msg names the 0-based index i as the one that is invalid.
NamesIndex(msg, i) ==
  \/ Contains(msg, <<"\" contains a non-int at index ", DigitChar(i)>>)
  \/ Contains(msg, <<"must be a comma-separated list of ints: index ",
                     DigitChar(i), " is invalid">>)

\* One failure is kept for the leaf p, and it names the first of bad.
OneFailureAtFirst(p, bad) ==
  /\ ~IsValid(errs, LeafKey(p))
  /\ Cardinality({i \in 1..Len(fails) : fails[i].Key = LeafKey(p)}) = 1
  /\ \A i \in 0..9 :
       NamesIndex(errs.invalidKeys[LeafKey(p)], i) <=>
         (i + 1 \in bad /\ \A j \in bad : i + 1 <= j)

StringSliceLeaves == {p \in LeafPaths : T[p].type = "[]string"}

Commas(v) == Cardinality({i \in 1..Len(v) : v[i] = ","})

\* strings.Join(elems, ",")
RECURSIVE Join(_)
Join(elems) ==
  IF elems = <<>> THEN <<>>
  ELSE IF Len(elems) = 1 THEN elems[1]
  ELSE elems[1] \o <<",">> \o Join(Tail(elems))

\* C22: a load of a []string leaf never fails; the empty value gives the
\* empty sequence, and a value with n commas gives n+1 elements whose
\* join with "," is the value.
StringSliceSplit ==
  (last.op \in {"Load", "LoadWithPrefix"} /\ ~panicked) =>
    \A p \in {q \in StringSliceLeaves : IsSet(LeafKey(q))} :
      LET v == LookupEnv(LeafKey(p))
      IN  /\ IsValid(errs, LeafKey(p))
          /\ v = <<>> => Len(rec[p]) = 0
          /\ v # <<>> =>
                /\ Len(rec[p]) = Commas(v) + 1
                /\ Join(rec[p]) = v

\* A value with an empty element between two commas was split in three,
\* or the empty value emptied a preset sequence.
StringSliceSplitWitness ==
  /\ last.op \in {"Load", "LoadWithPrefix"}
  /\ ~panicked
  /\ \E p \in StringSliceLeaves :
       /\ IsSet(LeafKey(p))
       /\ \/ /\ LookupEnv(LeafKey(p)) = <<"a", ",", ",", "b">>
             /\ rec[p] = << <<"a">>, <<>>, <<"b">> >>
          \/ /\ LookupEnv(LeafKey(p)) = <<>>
             /\ pre.rec[p] # <<>>
             /\ rec[p] = <<>>

ParsedTypes ==
  {"bool", "int", "big.Int", "*big.Int", "[]int"} \cup UintTypes

ParsedLeaves == {p \in LeafPaths : T[p].type \in ParsedTypes}

\* C23: after a load, a bool, int, unsigned, big.Int, *big.Int or []int
\* leaf whose variable is set and was refused holds the value it held
\* before the load.
FailedLeafKeepsValue ==
  (last.op \in {"Load", "LoadWithPrefix"} /\ ~panicked) =>
    \A p \in ParsedLeaves :
      (IsSet(LeafKey(p)) /\ ~IsValid(errs, LeafKey(p))) =>
        rec[p] = pre.rec[p]

\* A preset uint8 leaf refused the number after its maximum and kept its
\* value.
FailedLeafKeepsValueWitness ==
  /\ last.op = "LoadWithPrefix"
  /\ ~panicked
  /\ \E p \in ParsedLeaves :
       /\ T[p].type = "uint8"
       /\ IsSet(LeafKey(p))
       /\ LookupEnv(LeafKey(p)) = <<"2", "5", "6">>
       /\ FailedWith(p, <<"has a max value of ">> \o MaxUint(8))
       /\ rec[p] = <<"5">>

\* Load returned an error that holds failures.
LoadedWithFailures == Loaded /\ ~errs.isNil /\ DOMAIN errs.invalidKeys # {}

\* The leaf p is set to a value of its type and holds it.
WellFormedAt(p) ==
  IsSet(LeafKey(p)) /\ WellFormed(T[p].type, LookupEnv(LeafKey(p)))

\* C24: when Load returns an error that holds failures, every leaf whose
\* variable is set and well-formed holds its coerced value, be it declared
\* before or after a malformed leaf.
LoadIsNotAllOrNothing ==
  LoadedWithFailures =>
    \A p \in LeafPaths :
      WellFormedAt(p) => rec[p] = Coerced(T[p].type, LookupEnv(LeafKey(p)))

\* The same for records whose nested records are held by pointer.
LoadIsNotAllOrNothingPointerNested ==
  (LoadedWithFailures /\ PointerNested) =>
    \A p \in LeafPaths :
      WellFormedAt(p) => rec[p] = Coerced(T[p].type, LookupEnv(LeafKey(p)))

\* Load refused a leaf and wrote a new value to a leaf declared after it.
WrittenAfterMalformed ==
  /\ LoadedWithFailures
  /\ PointerNested
  /\ \E p, q \in LeafPaths :
       /\ DeclaredBefore(p, q)
       /\ Malformed(p)
       /\ WellFormedAt(q)
       /\ rec[q] = Coerced(T[q].type, LookupEnv(LeafKey(q)))
       /\ rec[q] # pre.rec[q]

\* The value v is the writing of a negative integer.
DenotesNegative(v) ==
  IsDecimal(v) /\ v[1] = "-" /\ StripZeros(Tail(v)) # <<"0">>

MinMessage == <<"has a min value of 0">>

\* C25: LoadWithPrefix reports "has a min value of 0" for an unsigned
\* leaf only when its value is the writing of a negative integer; "+5"
\* and "-0" are never refused with it.
MinOnlyForNegative ==
  (last.op = "LoadWithPrefix" /\ ~panicked) =>
    \A p \in {q \in UintLeaves : IsSet(LeafKey(q))} :
      FailedWith(p, MinMessage) => DenotesNegative(LookupEnv(LeafKey(p)))

\* The message is reported only for a value with a sign that an int64
\* holds.
MinOnlyForSigned ==
  (last.op = "LoadWithPrefix" /\ ~panicked) =>
    \A p \in {q \in UintLeaves : IsSet(LeafKey(q))} :
      FailedWith(p, MinMessage) =>
        /\ LookupEnv(LeafKey(p))[1] \in {"+", "-"}
        /\ ParseIntOk(LookupEnv(LeafKey(p)))

\* "-0" was refused as below 0.
MinusZeroRefused ==
  /\ last.op = "LoadWithPrefix"
  /\ \E p \in UintLeaves :
       /\ IsSet(LeafKey(p))
       /\ LookupEnv(LeafKey(p)) = <<"-", "0">>
       /\ FailedWith(p, MinMessage)

====
